---- MODULE Spec2Model ----
(***************************************************************************)
(* Rank-distributed incremental PCA (btx/processing/ipca.py, class IPCA).  *)
(*                                                                         *)
(* Every MPI rank runs the same driver: it constructs an IPCA object and   *)
(* then calls initialize_model / update_model / get_model with the same    *)
(* arguments as its peers.  Matrices are modelled by their shapes (rows,   *)
(* cols) and, where a claim is about where a value comes from, by a        *)
(* symbolic value; the collectives are modelled by the number of elements  *)
(* each side puts on or expects from the wire.                             *)
(***************************************************************************)
EXTENDS Integers, Sequences, FiniteSets, TLC

\* ------------------------------------------------------------------ bounds
MaxD == 6
MaxSize == 2
MaxQ == 2
MaxM == 3
MaxCalls == 2
MaxPartD == 12
MaxPartSize == 5

AllRanks == 0 .. (MaxSize - 1)

VARIABLES
    d, q, m, size,          \* IPCA.__init__ arguments and comm.Get_size()
    pc,                     \* per rank: where the rank's driver stands
    err,                    \* per rank: the statement that raised, "" if none
    split_counts,           \* per rank: self.split_counts (indexed by rank)
    start_indices,          \* per rank: self.start_indices
    U, S, n,                \* per rank: self.U, self.S, self.n
    mu, total_variance,     \* per rank: self.mu, self.total_variance
    loc,                    \* per rank: the locals of the running call
    calls,                  \* the driver's calls so far (same on every rank)
    ip,                     \* per rank: number of calls the rank has started
    bar,                    \* per rank: number of barriers entered
    wire,                   \* payloads rank 0 has put on scatters/broadcasts
    taken,                  \* per rank: number of rank-0 payloads consumed
    gath,                   \* per rank: gather contributions sent so far
    gdone,                  \* number of gathers rank 0 has completed
    trace,                  \* per rank: collectives issued in the current call
    ret                     \* per rank: what the last get_model returned

vars == <<d, q, m, size, pc, err, split_counts, start_indices, U, S, n, mu,
          total_variance, loc, calls, ip, bar, wire, taken, gath, gdone,
          trace, ret>>

Ranks == 0 .. (size - 1)

\* ----------------------------------------------------------- array values
Shape(r, c) == [rows |-> r, cols |-> c]
Mat(r, c, v) == [rows |-> r, cols |-> c, val |-> v]
Vec(r, v) == [rows |-> r, val |-> v]
NoAttr == [rows |-> -1, val |-> <<>>]       \* attribute never assigned
NoLoc == [mp |-> -1]

\* Symbolic values, in prefix form over the naturals.
Zeros == <<0>>
MeanOf(blk) == <<1, blk>>
VarOf(blk) == <<2, blk>>
CombMean(a, b, nn, mm) == <<3, nn, mm>> \o a \o b
CombVar(sn, sm, mun, mum, nn, mm) == <<4, nn, mm>> \o sn \o sm \o mun \o mum
Augment(nn, mm, mum, mun) == <<5, nn, mm>> \o mum \o mun
Eye == <<6>>
SvdLocal(r, k) == <<7, r, k>>               \* singular values of a rank's own SVD
SvdRoot(k) == <<8, k>>                      \* S_tilde of rank 0's SVD in call k
Uninit(r) == <<9, r>>                       \* np.empty contents on rank r
Partial(r) == <<10, r>>                     \* buffer only partly overwritten

Min(a, b) == IF a < b THEN a ELSE b

\* numpy broadcasting of one axis
BcOk(a, b) == a = b \/ a = 1 \/ b = 1
BcDim(a, b) == IF a = 1 THEN b ELSE a

\* ------------------------------------------------------ distribute_indices
NumPerRankOffByOne(dd, sz, r) == (dd \div sz) + (IF r <= dd % sz THEN 1 ELSE 0)

NumPerRank(dd, sz, r) == (dd \div sz) + (IF r < dd % sz THEN 1 ELSE 0)

RECURSIVE CumSum(_, _, _)
CumSum(dd, sz, k) == IF k = 0 THEN 0
                     ELSE CumSum(dd, sz, k - 1) + NumPerRank(dd, sz, k - 1)

\* split_indices = [0] ++ cumsum(num_per_rank), entries 0..size
SplitIndices(dd, sz) == [i \in 0 .. sz |-> CumSum(dd, sz, i)]

StartIndices(dd, sz) == [r \in 0 .. (sz - 1) |-> SplitIndices(dd, sz)[r]]

SplitCounts(dd, sz) ==
    [i \in 0 .. (sz - 1) |-> SplitIndices(dd, sz)[i + 1] - SplitIndices(dd, sz)[i]]

\* ---------------------------------------------------------------- __init__
Construct(r) ==
    /\ pc[r] = "new"
    /\ split_counts' = [split_counts EXCEPT ![r] = SplitCounts(d, size)]
    /\ start_indices' = [start_indices EXCEPT ![r] = StartIndices(d, size)]
    /\ n' = [n EXCEPT ![r] = 0]
    /\ S' = [S EXCEPT ![r] = Mat(q, q, Eye)]
    /\ U' = [U EXCEPT ![r] = Shape(SplitCounts(d, size)[r], q)]
    /\ mu' = [mu EXCEPT ![r] = IF r = 0 THEN Vec(d, Zeros) ELSE NoAttr]
    /\ total_variance' =
           [total_variance EXCEPT ![r] = IF r = 0 THEN Vec(d, Zeros) ELSE NoAttr]
    /\ pc' = [pc EXCEPT ![r] = "idle"]
    /\ UNCHANGED <<d, q, m, size, err, loc, calls, ip, bar, wire, taken, gath,
                   gdone, trace, ret>>

InitWith(dd, sz, qq, mm) ==
    /\ d = dd /\ size = sz /\ q = qq /\ m = mm
    /\ pc = [r \in 0 .. (sz - 1) |-> "new"]
    /\ err = [r \in 0 .. (sz - 1) |-> ""]
    /\ split_counts = [r \in 0 .. (sz - 1) |-> <<>>]
    /\ start_indices = [r \in 0 .. (sz - 1) |-> <<>>]
    /\ U = [r \in 0 .. (sz - 1) |-> Shape(-1, -1)]
    /\ S = [r \in 0 .. (sz - 1) |-> Mat(-1, -1, <<>>)]
    /\ n = [r \in 0 .. (sz - 1) |-> 0]
    /\ mu = [r \in 0 .. (sz - 1) |-> NoAttr]
    /\ total_variance = [r \in 0 .. (sz - 1) |-> NoAttr]
    /\ loc = [r \in 0 .. (sz - 1) |-> NoLoc]
    /\ calls = <<>>
    /\ ip = [r \in 0 .. (sz - 1) |-> 0]
    /\ bar = [r \in 0 .. (sz - 1) |-> 0]
    /\ wire = <<>>
    /\ taken = [r \in 0 .. (sz - 1) |-> 0]
    /\ gath = [r \in 0 .. (sz - 1) |-> <<>>]
    /\ gdone = 0
    /\ trace = [r \in 0 .. (sz - 1) |-> <<>>]
    /\ ret = [r \in 0 .. (sz - 1) |-> [U |-> Shape(-1, -1), S |-> Mat(-1, -1, <<>>)]]

\* ------------------------------------------------- the driver's calls
\* initialize_model with a d x q sample, update_model with a d x k block of
\* any width k, update_model with a block of d+1 rows, get_model.
CallChoices ==
    {[op |-> "initialize_model", rows |-> d, cols |-> q]}
    \cup {[op |-> "update_model", rows |-> d, cols |-> k] : k \in 0 .. MaxM}
    \cup {[op |-> "update_model", rows |-> d + 1, cols |-> m]}
    \cup {[op |-> "get_model", rows |-> 0, cols |-> 0]}

\* The next call of rank r: the one its peers already made at this position,
\* or a new one when r is the first to get there.
\* scripts/main.py: a rank whose task raises prints the traceback and exits
\* with status 1, which ends the MPI job; no rank starts a call after that.
JobAlive == \A o \in Ranks : pc[o] # "failed"

NextCall(r, c) ==
    /\ JobAlive
    /\ \/ /\ ip[r] < Len(calls)
          /\ c = calls[ip[r] + 1]
          /\ UNCHANGED calls
       \/ /\ ip[r] = Len(calls)
          /\ Len(calls) < MaxCalls
          /\ calls' = Append(calls, c)

Count(r) == split_counts[r][r]              \* self.split_counts[self.rank]
W == q + m + 1                              \* q+m+1 with m = self.m

\* What a receive of `sent` elements into a buffer of `buf` elements does.
\* Equal counts: the data arrive.  Otherwise the call is erroneous by the MPI
\* standard and the outcome is the library's:
\*   - more sent than the buffer holds: a truncation error;
\*   - fewer sent than the buffer holds, in Scatterv/Gatherv (one message per
\*     rank): the message is received and the rest of the buffer keeps what
\*     it held;
\*   - fewer sent than the buffer holds, in Gather/Bcast (tree or pipelined
\*     algorithms chosen from the local count): either that, or an error.
Linear(kind) == kind \in {"Scatterv", "Gatherv"}

Outcomes(kind, sent, buf) ==
    IF sent = buf THEN {"ok"}
    ELSE IF sent > buf THEN {"error"}
    ELSE IF Linear(kind) THEN {"partial"}
    ELSE {"partial", "error"}

\* The outcomes of a receive of one block per rank (a gather on rank 0);
\* pairs holds <<sent, expected>> for every rank.
OutcomesAll(kind, pairs) ==
    IF \E p \in pairs : p[1] > p[2] THEN {"error"}
    ELSE IF \A p \in pairs : p[1] = p[2] THEN {"ok"}
    ELSE IF Linear(kind) THEN {"partial"}
    ELSE {"partial", "error"}

\* numpy.linalg on a matrix with no rows or no columns: depending on the
\* numpy release it raises LinAlgError or returns empty factors.
EmptyOutcomes(rows, cols) ==
    IF rows = 0 \/ cols = 0 THEN {"raise", "degenerate"} ELSE {"ok"}

Fail(r, where) ==
    /\ pc' = [pc EXCEPT ![r] = "failed"]
    /\ err' = [err EXCEPT ![r] = where]

Snapshot(r) == [U |-> U[r], S |-> S[r], n |-> n[r], mu |-> mu[r],
                total_variance |-> total_variance[r]]

NewLoc(r, c) ==
    [mp |-> c.cols, rows |-> c.rows, blk |-> ip[r] + 1, pre |-> Snapshot(r),
     X_aug |-> Shape(-1, -1), v_augment |-> <<>>, X_aug_loc |-> Shape(-1, -1),
     x |-> -1, q_loc |-> Shape(-1, -1), r_loc |-> Shape(-1, -1),
     r_tot |-> Shape(-1, -1), q_tot |-> Shape(-1, -1), r_tilde |-> Shape(-1, -1),
     UB_tilde |-> Shape(-1, -1), U_tilde |-> Shape(-1, -1),
     S_tilde |-> [len |-> -1, val |-> <<>>]]

\* ------------------------------------------- streaming statistics combiner
\* calculate_sample_mean_and_variance(imgs), imgs of shape (rows x k)
BlockMean(rows, k, blk) == Vec(rows, MeanOf(blk))
BlockVar(rows, k, blk) == Vec(rows, IF k > 1 THEN VarOf(blk) ELSE Zeros)

\* update_sample_mean; the shapes must broadcast when n /= 0
update_sample_mean(mu_n, mu_m, nn, mm) ==
    IF nn = 0 THEN mu_m
    ELSE Vec(BcDim(mu_n.rows, mu_m.rows), CombMean(mu_n.val, mu_m.val, nn, mm))

\* update_sample_variance
VarOk(s_n, s_m, mu_n, mu_m, nn, mm) ==
    \/ nn = 0
    \/ /\ BcOk(s_n.rows, s_m.rows)
       /\ BcOk(mu_n.rows, mu_m.rows)
       /\ BcOk(BcDim(s_n.rows, s_m.rows), BcDim(mu_n.rows, mu_m.rows))
update_sample_variance(s_n, s_m, mu_n, mu_m, nn, mm) ==
    IF nn = 0 THEN s_m
    ELSE Vec(BcDim(BcDim(s_n.rows, s_m.rows), BcDim(mu_n.rows, mu_m.rows)),
             CombVar(s_n.val, s_m.val, mu_n.val, mu_m.val, nn, mm))

\* The mean and the count that enter v_augment: the locals mu_n and n, read
\* from self before self.mu is overwritten and before self.n is incremented.
AugmentMeanBlended(mu_n, mu_new) == mu_new
AugmentMean(mu_n, mu_new) == mu_n
AugmentCount(n_old, mm) == n_old

\* Rank 0's statistics block of update_model, statement by statement.
\* err names the statement that raises ("" if none); mu and tv are the
\* attributes as that point leaves them.
RootStats(mu0, tv0, n0, rows, mp, blk) ==
    LET mu_n == mu0
        mu_m == BlockMean(rows, mp, blk)
        s_m == BlockVar(rows, mp, blk)
    IN IF ~VarOk(tv0, s_m, mu_n, mu_m, n0, mp)
       THEN [err |-> "update_model:164", mu |-> mu0, tv |-> tv0,
             v |-> <<>>, X_aug |-> Shape(-1, -1)]
       ELSE
       LET tv1 == update_sample_variance(tv0, s_m, mu_n, mu_m, n0, mp)
           mu1 == update_sample_mean(mu_n, mu_m, n0, mp)
           mean_used == AugmentMean(mu_n, mu1)
           n_used == AugmentCount(n0, mp)
       IN IF n_used + mp = 0 \/ ~BcOk(mu_m.rows, mean_used.rows)
          THEN [err |-> "update_model:169", mu |-> mu1, tv |-> tv1,
                v |-> <<>>, X_aug |-> Shape(-1, -1)]
          ELSE IF BcDim(mu_m.rows, mean_used.rows) # rows
          THEN [err |-> "update_model:171", mu |-> mu1, tv |-> tv1,
                v |-> <<>>, X_aug |-> Shape(-1, -1)]
          ELSE [err |-> "", mu |-> mu1, tv |-> tv1,
                v |-> Augment(n_used, mp, mu_m.val, mean_used.val),
                X_aug |-> Shape(rows, mp + 1)]

\* -------------------------------------------------------- initialize_model
InitializeModel(r) ==
    \E c \in CallChoices :
      /\ pc[r] = "idle"
      /\ c.op = "initialize_model"
      /\ NextCall(r, c)
      /\ ip' = [ip EXCEPT ![r] = @ + 1]
      /\ LET blk == ip[r] + 1
             kk == BcDim(c.cols, q)             \* columns of centered_data
             k == Min(c.rows, kk)               \* reduced SVD
         IN /\ mu' = [mu EXCEPT ![r] = BlockMean(c.rows, c.cols, blk)]
            /\ total_variance' =
                   [total_variance EXCEPT ![r] = BlockVar(c.rows, c.cols, blk)]
            /\ \E o \in EmptyOutcomes(c.rows, kk) :
                 IF ~BcOk(c.cols, q)
                 THEN Fail(r, "initialize_model:234") /\ UNCHANGED <<U, S, n>>
                 ELSE IF o = "raise"
                 THEN Fail(r, "initialize_model:235") /\ UNCHANGED <<U, S, n>>
                 ELSE /\ U' = [U EXCEPT ![r] = Shape(c.rows, k)]
                      /\ S' = [S EXCEPT ![r] = Mat(k, k, SvdLocal(r, blk))]
                      /\ n' = [n EXCEPT ![r] = @ + q]
                      /\ UNCHANGED <<pc, err>>
      /\ trace' = [trace EXCEPT ![r] = <<>>]
      /\ UNCHANGED <<d, q, m, size, split_counts, start_indices, loc, bar, wire,
                     taken, gath, gdone, ret>>

\* ------------------------------------------------------------ collectives
Payload(kind, elems, val) == [kind |-> kind, elems |-> elems, val |-> val]

ToAll(k) == [r \in Ranks |-> k]

\* Rank 0 puts a scatter or broadcast payload on the wire.
Send(r, p) == wire' = IF r = 0 THEN Append(wire, p) ELSE wire

\* The payload a rooted send delivers to rank r; rank 0 does not wait.
Delivered(r) == r = 0 \/ taken[r] < Len(wire)
Consume(r) == taken' = IF r = 0 THEN taken ELSE [taken EXCEPT ![r] = @ + 1]
Incoming(r) == wire[taken[r] + 1]

Issue(r, name) == trace' = [trace EXCEPT ![r] = Append(@, name)]

\* Barrier: a rank passes once every rank has entered the same barrier.
BarrierOpen(r) == \A o \in Ranks : bar[o] >= bar[r]

\* ------------------------------------------------------------ update_model
\* Lines 153-175: the locals, rank 0's statistics and augmentation, and the
\* entry into the barrier.
UpdateEnter(r) ==
    \E c \in CallChoices :
      /\ pc[r] = "idle"
      /\ c.op = "update_model"
      /\ NextCall(r, c)
      /\ ip' = [ip EXCEPT ![r] = @ + 1]
      /\ LET st == RootStats(mu[r], total_variance[r], n[r], c.rows, c.cols,
                             ip[r] + 1)
             l0 == NewLoc(r, c)
         IN IF r = 0
            THEN /\ mu' = [mu EXCEPT ![r] = st.mu]
                 /\ total_variance' = [total_variance EXCEPT ![r] = st.tv]
                 /\ loc' = [loc EXCEPT ![r] =
                              [l0 EXCEPT !.X_aug = st.X_aug, !.v_augment = st.v]]
                 /\ IF st.err # ""
                    THEN Fail(r, st.err) /\ UNCHANGED <<bar>>
                         /\ trace' = [trace EXCEPT ![r] = <<>>]
                    ELSE /\ pc' = [pc EXCEPT ![r] = "barrier"]
                         /\ bar' = [bar EXCEPT ![r] = @ + 1]
                         /\ trace' = [trace EXCEPT ![r] = <<"Barrier">>]
                         /\ UNCHANGED err
            ELSE /\ loc' = [loc EXCEPT ![r] = l0]
                 /\ pc' = [pc EXCEPT ![r] = "barrier"]
                 /\ bar' = [bar EXCEPT ![r] = @ + 1]
                 /\ trace' = [trace EXCEPT ![r] = <<"Barrier">>]
                 /\ UNCHANGED <<mu, total_variance, err>>
      /\ UNCHANGED <<d, q, m, size, split_counts, start_indices, U, S, n, wire,
                     taken, gath, gdone, ret>>

\* Lines 175-179: the barrier opens; X_aug_loc is allocated and the rank
\* enters Scatterv.  Rank 0 sends split_counts[r] elements to rank r.
UpdatePassBarrier(r) ==
    /\ pc[r] = "barrier"
    /\ BarrierOpen(r)
    /\ loc' = [loc EXCEPT ![r].X_aug_loc = Shape(Count(r), loc[r].mp + 1)]
    /\ Send(r, Payload("Scatterv", split_counts[r], <<>>))
    /\ Issue(r, "Scatterv")
    /\ pc' = [pc EXCEPT ![r] = "scatter"]
    /\ UNCHANGED <<d, q, m, size, err, split_counts, start_indices, U, S, n, mu,
                   total_variance, calls, ip, bar, taken, gath, gdone, ret>>

\* numpy.linalg.qr(A, mode='reduced'), A of shape (y x x)
QrQ(y, x) == Shape(y, Min(y, x))
QrR(y, x) == Shape(Min(y, x), x)

\* The receive buffer of the gather on rank 0 (line 111) and the buffers of
\* the Q_stack and R_final broadcasts on the other ranks (lines 121-122).
GatherWidth == W

\* Lines 179-115: Scatterv completes; us, qr_input, the local QR, the gather
\* buffer, and the entry into Gather.
UpdateScatterDone(r) ==
    /\ pc[r] = "scatter"
    /\ Delivered(r)
    /\ Consume(r)
    /\ LET l == loc[r]
           sent == IF r = 0 THEN split_counts[r][r] ELSE Incoming(r).elems[r]
           buf == l.X_aug_loc.rows * l.X_aug_loc.cols
           us == Shape(U[r].rows, S[r].cols)
           y == Count(r)
           x == S[r].cols + l.mp + 1
       IN \E o \in Outcomes("Scatterv", sent, buf), e \in EmptyOutcomes(y, x) :
            IF o = "error"
            THEN Fail(r, "update_model:179") /\ UNCHANGED <<loc, gath, trace>>
            ELSE IF U[r].cols # S[r].rows
            THEN Fail(r, "update_model:182") /\ UNCHANGED <<loc, gath, trace>>
            ELSE IF us.rows # l.X_aug_loc.rows
            THEN Fail(r, "update_model:187") /\ UNCHANGED <<loc, gath, trace>>
            ELSE IF e = "raise"
            THEN Fail(r, "parallel_qr:107") /\ UNCHANGED <<loc, gath, trace>>
            ELSE /\ loc' = [loc EXCEPT ![r] =
                              [l EXCEPT !.x = x,
                                        !.q_loc = QrQ(y, x),
                                        !.r_loc = QrR(y, x),
                                        !.r_tot = IF r = 0
                                                  THEN Shape(size * GatherWidth,
                                                             GatherWidth)
                                                  ELSE Shape(-1, -1)]]
                 /\ gath' = [gath EXCEPT ![r] =
                               Append(@, QrR(y, x).rows * QrR(y, x).cols)]
                 /\ Issue(r, "Gather")
                 /\ pc' = [pc EXCEPT ![r] = "gather"]
                 /\ UNCHANGED err
    /\ UNCHANGED <<d, q, m, size, split_counts, start_indices, U, S, n, mu,
                   total_variance, calls, ip, bar, wire, gdone, ret>>

\* Rank 0 has every rank's contribution to its next gather.
Gathered(r) == r # 0 \/ \A o \in Ranks : Len(gath[o]) > gdone

\* Lines 115-125: Gather completes (on rank 0 once every block is in); the
\* global QR on rank 0, empty buffers elsewhere; entry into Bcast(q_tot).
UpdateGatherDone(r) ==
    /\ pc[r] = "gather"
    /\ Gathered(r)
    /\ LET l == loc[r]
           per == (l.r_tot.rows * l.r_tot.cols) \div size
           pairs == {<<gath[o][gdone + 1], per>> : o \in Ranks}
           qt == IF r = 0 THEN QrQ(l.r_tot.rows, l.r_tot.cols)
                 ELSE Shape(size * GatherWidth, GatherWidth)
           rt == IF r = 0 THEN QrR(l.r_tot.rows, l.r_tot.cols)
                 ELSE Shape(GatherWidth, GatherWidth)
       IN \E o \in (IF r = 0 THEN OutcomesAll("Gather", pairs) ELSE {"ok"}) :
            IF o = "error"
            THEN Fail(r, "parallel_qr:115") /\ UNCHANGED <<loc, wire, trace>>
            ELSE /\ loc' = [loc EXCEPT ![r] = [l EXCEPT !.q_tot = qt, !.r_tilde = rt]]
                 /\ Send(r, Payload("Bcast", ToAll(qt.rows * qt.cols), <<>>))
                 /\ Issue(r, "Bcast q_tot")
                 /\ pc' = [pc EXCEPT ![r] = "bcast_q"]
                 /\ UNCHANGED err
    /\ gdone' = IF r = 0 THEN gdone + 1 ELSE gdone
    /\ UNCHANGED <<d, q, m, size, split_counts, start_indices, U, S, n, mu,
                   total_variance, calls, ip, bar, taken, gath, ret>>

\* Lines 125-128: Bcast(q_tot) completes; entry into Bcast(r_tilde).
UpdateBcastQDone(r) ==
    /\ pc[r] = "bcast_q"
    /\ Delivered(r)
    /\ Consume(r)
    /\ LET l == loc[r]
           buf == l.q_tot.rows * l.q_tot.cols
           sent == IF r = 0 THEN buf ELSE Incoming(r).elems[r]
       IN \E o \in Outcomes("Bcast", sent, buf) :
            IF o = "error"
            THEN Fail(r, "parallel_qr:125") /\ UNCHANGED <<wire, trace>>
            ELSE /\ Send(r, Payload("Bcast", ToAll(l.r_tilde.rows * l.r_tilde.cols),
                                    <<>>))
                 /\ Issue(r, "Bcast r_tilde")
                 /\ pc' = [pc EXCEPT ![r] = "bcast_r"]
                 /\ UNCHANGED err
    /\ UNCHANGED <<d, q, m, size, split_counts, start_indices, U, S, n, mu,
                   total_variance, loc, calls, ip, bar, gath, gdone, ret>>

\* q_tot[rank*x:(rank+1)*x, :] : the number of rows the slice has
SliceRows(rows, r, x) == Min((r + 1) * x, rows) - Min(r * x, rows)

\* The U_tilde and S_tilde buffers of a rank other than 0 (lines 197-198);
\* m here is the width of the block of this call.
TildeWidth(mp) == q + mp + 1

\* Lines 128-201: Bcast(r_tilde) completes; q_fin; the SVD of R on rank 0,
\* empty buffers elsewhere; entry into Bcast(U_tilde).
UpdateBcastRDone(r) ==
    /\ pc[r] = "bcast_r"
    /\ Delivered(r)
    /\ Consume(r)
    /\ LET l == loc[r]
           buf == l.r_tilde.rows * l.r_tilde.cols
           sent == IF r = 0 THEN buf ELSE Incoming(r).elems[r]
           ut == IF r = 0 THEN Shape(l.r_tilde.rows, l.r_tilde.rows)
                 ELSE Shape(TildeWidth(l.mp), TildeWidth(l.mp))
           stl == IF r = 0
                  THEN [len |-> Min(l.r_tilde.rows, l.r_tilde.cols),
                        val |-> SvdRoot(l.blk)]
                  ELSE [len |-> TildeWidth(l.mp), val |-> Uninit(r)]
       IN \E o \in Outcomes("Bcast", sent, buf) :
            IF o = "error"
            THEN Fail(r, "parallel_qr:128") /\ UNCHANGED <<loc, wire, trace>>
            ELSE IF l.q_loc.cols # SliceRows(l.q_tot.rows, r, l.x)
            THEN Fail(r, "parallel_qr:131") /\ UNCHANGED <<loc, wire, trace>>
            ELSE /\ loc' = [loc EXCEPT ![r] =
                              [l EXCEPT !.UB_tilde = Shape(l.q_loc.rows, l.q_tot.cols),
                                        !.U_tilde = ut,
                                        !.S_tilde = stl]]
                 /\ Send(r, Payload("Bcast", ToAll(ut.rows * ut.cols), <<>>))
                 /\ Issue(r, "Bcast U_tilde")
                 /\ pc' = [pc EXCEPT ![r] = "bcast_u"]
                 /\ UNCHANGED err
    /\ UNCHANGED <<d, q, m, size, split_counts, start_indices, U, S, n, mu,
                   total_variance, calls, ip, bar, gath, gdone, ret>>

\* Lines 201-204: Bcast(U_tilde) completes; entry into Bcast(S_tilde).
UpdateBcastUDone(r) ==
    /\ pc[r] = "bcast_u"
    /\ Delivered(r)
    /\ Consume(r)
    /\ LET l == loc[r]
           buf == l.U_tilde.rows * l.U_tilde.cols
           sent == IF r = 0 THEN buf ELSE Incoming(r).elems[r]
       IN \E o \in Outcomes("Bcast", sent, buf) :
            IF o = "error"
            THEN Fail(r, "update_model:201") /\ UNCHANGED <<wire, trace>>
            ELSE /\ Send(r, Payload("Bcast", ToAll(l.S_tilde.len), l.S_tilde.val))
                 /\ Issue(r, "Bcast S_tilde")
                 /\ pc' = [pc EXCEPT ![r] = "bcast_s"]
                 /\ UNCHANGED err
    /\ UNCHANGED <<d, q, m, size, split_counts, start_indices, U, S, n, mu,
                   total_variance, loc, calls, ip, bar, gath, gdone, ret>>

\* What the S_tilde buffer of rank r holds once Bcast(S_tilde) has completed
\* with outcome o: the broadcast value, on rank 0 its own SVD's.
ReceivedLocalOnly(r, own, o) == own
Received(r, own, o) ==
    IF r = 0 THEN own
    ELSE IF o = "ok" THEN Incoming(r).val
    ELSE Partial(r)

\* Lines 204-212: Bcast(S_tilde) completes; U_prime; self.U, self.S and
\* self.n are assigned and the call returns.
UpdateBcastSDone(r) ==
    /\ pc[r] = "bcast_s"
    /\ Delivered(r)
    /\ Consume(r)
    /\ LET l == loc[r]
           buf == l.S_tilde.len
           sent == IF r = 0 THEN buf ELSE Incoming(r).elems[r]
       IN \E o \in Outcomes("Bcast", sent, buf) :
            LET sv == Received(r, l.S_tilde.val, o)
                k == Min(q, l.S_tilde.len)
            IN IF o = "error"
               THEN Fail(r, "update_model:204") /\ UNCHANGED <<U, S, n, loc>>
               ELSE IF l.UB_tilde.cols # l.U_tilde.rows
               THEN Fail(r, "update_model:207") /\ UNCHANGED <<U, S, n, loc>>
               ELSE /\ U' = [U EXCEPT ![r] =
                               Shape(l.UB_tilde.rows, Min(q, l.U_tilde.cols))]
                    /\ S' = [S EXCEPT ![r] = Mat(k, k, sv)]
                    /\ n' = [n EXCEPT ![r] = @ + l.mp]
                    /\ loc' = [loc EXCEPT ![r] = NoLoc]
                    /\ pc' = [pc EXCEPT ![r] = "idle"]
                    /\ UNCHANGED err
    /\ UNCHANGED <<d, q, m, size, split_counts, start_indices, mu,
                   total_variance, calls, ip, bar, wire, gath, gdone, trace, ret>>

\* --------------------------------------------------------------- get_model
RetNone == [U |-> Shape(-1, -1), S |-> Mat(-1, -1, <<>>)]

\* Lines 136-139: U_tot, S_tot and the entry into Gatherv.
GetModelEnter(r) ==
    \E c \in CallChoices :
      /\ pc[r] = "idle"
      /\ c.op = "get_model"
      /\ NextCall(r, c)
      /\ ip' = [ip EXCEPT ![r] = @ + 1]
      /\ gath' = [gath EXCEPT ![r] = Append(@, U[r].rows * U[r].cols)]
      /\ trace' = [trace EXCEPT ![r] = <<"Gatherv">>]
      /\ pc' = [pc EXCEPT ![r] = "gm_gather"]
      /\ UNCHANGED <<d, q, m, size, err, split_counts, start_indices, U, S, n,
                     mu, total_variance, loc, bar, wire, taken, gdone, ret>>

\* Lines 139-142: Gatherv completes; rank 0 returns (U_tot, S_tot, mu,
\* total_variance), the other ranks return None.
GetModelDone(r) ==
    /\ pc[r] = "gm_gather"
    /\ Gathered(r)
    /\ LET pairs == {<<gath[o][gdone + 1], split_counts[r][o]>> : o \in Ranks}
       IN \E o \in (IF r = 0 THEN OutcomesAll("Gatherv", pairs) ELSE {"ok"}) :
            IF o = "error"
            THEN Fail(r, "get_model:139") /\ UNCHANGED ret
            ELSE /\ ret' = [ret EXCEPT ![r] =
                              IF r = 0 THEN [U |-> Shape(d, q), S |-> S[r]]
                              ELSE RetNone]
                 /\ pc' = [pc EXCEPT ![r] = "idle"]
                 /\ UNCHANGED err
    /\ gdone' = IF r = 0 THEN gdone + 1 ELSE gdone
    /\ UNCHANGED <<d, q, m, size, split_counts, start_indices, U, S, n, mu,
                   total_variance, loc, calls, ip, bar, wire, taken, gath, trace>>

\* ------------------------------------------------------------ the program
Init ==
    \E dd \in 0 .. MaxD, sz \in 1 .. MaxSize, qq \in 1 .. MaxQ, mm \in 1 .. MaxM :
        InitWith(dd, sz, qq, mm)

Next ==
    \/ \E r \in AllRanks : r \in Ranks /\ Construct(r)
    \/ \E r \in AllRanks : r \in Ranks /\ InitializeModel(r)
    \/ \E r \in AllRanks : r \in Ranks /\ UpdateEnter(r)
    \/ \E r \in AllRanks : r \in Ranks /\ UpdatePassBarrier(r)
    \/ \E r \in AllRanks : r \in Ranks /\ UpdateScatterDone(r)
    \/ \E r \in AllRanks : r \in Ranks /\ UpdateGatherDone(r)
    \/ \E r \in AllRanks : r \in Ranks /\ UpdateBcastQDone(r)
    \/ \E r \in AllRanks : r \in Ranks /\ UpdateBcastRDone(r)
    \/ \E r \in AllRanks : r \in Ranks /\ UpdateBcastUDone(r)
    \/ \E r \in AllRanks : r \in Ranks /\ UpdateBcastSDone(r)
    \/ \E r \in AllRanks : r \in Ranks /\ GetModelEnter(r)
    \/ \E r \in AllRanks : r \in Ranks /\ GetModelDone(r)

Spec == Init /\ [][Next]_vars

\* ------------------------------------------- the partitioner on its own
PartInit == \E dd \in 0 .. MaxPartD, sz \in 1 .. MaxPartSize : InitWith(dd, sz, 1, 1)

PartNext == \E r \in 0 .. (MaxPartSize - 1) : r \in Ranks /\ Construct(r)

PartSpec == PartInit /\ [][PartNext]_vars

RECURSIVE SumCounts(_, _)
SumCounts(cnt, k) == IF k = 0 THEN 0 ELSE SumCounts(cnt, k - 1) + cnt[k - 1]

\* C1: on every constructed rank, count[r] = d div size + (1 if r < d mod
\* size), start[r] is the sum of the counts before r, the counts sum to d,
\* the ranges are contiguous in rank order and two counts differ by at most 1.
C1_Partition ==
    \A w \in Ranks : pc[w] # "new" =>
        LET cnt == split_counts[w]
            st == start_indices[w]
        IN /\ DOMAIN cnt = Ranks /\ DOMAIN st = Ranks
           /\ \A r \in Ranks :
                 /\ cnt[r] = (d \div size) + (IF r < d % size THEN 1 ELSE 0)
                 /\ st[r] = SumCounts(cnt, r)
                 /\ r + 1 \in Ranks => st[r + 1] = st[r] + cnt[r]
           /\ st[0] = 0
           /\ SumCounts(cnt, size) = d
           /\ st[size - 1] + cnt[size - 1] = d
           /\ \A r1, r2 \in Ranks : cnt[r1] - cnt[r2] <= 1

C1_Witness ==
    /\ size = 3 /\ d = 8
    /\ \A w \in Ranks : pc[w] = "idle"
    /\ split_counts[2] = (0 :> 3 @@ 1 :> 3 @@ 2 :> 2)
    /\ start_indices[2] = (0 :> 0 @@ 1 :> 3 @@ 2 :> 6)

\* ------------------------------------------------------------ properties
LastCall(r) == calls[ip[r]]
InCall(r, op) == ip[r] >= 1 /\ LastCall(r).op = op
Returned(r, op) == InCall(r, op) /\ pc[r] = "idle"

\* C2: d=6, q=2, two ranks; initialize_model(6x2) then update_model(6x3)
\* complete on both ranks, n is 2 after the first and 5 after the second, and
\* get_model then returns a 6x2 U and an S with 2 diagonal entries.
C2_Scenario ==
    (/\ d = 6 /\ q = 2 /\ size = 2 /\ m = 3
     /\ Len(calls) >= 2
     /\ calls[1] = [op |-> "initialize_model", rows |-> 6, cols |-> 2]
     /\ calls[2] = [op |-> "update_model", rows |-> 6, cols |-> 3]
     /\ Len(calls) >= 3 => calls[3].op = "get_model")
    => \A r \in Ranks :
         /\ pc[r] # "failed"
         /\ (ip[r] = 1 /\ pc[r] = "idle") => n[r] = 2
         /\ (ip[r] = 2 /\ pc[r] = "idle") => n[r] = 5
         /\ (ip[r] = 3 /\ pc[r] = "idle" /\ r = 0) =>
                /\ ret[r].U = Shape(6, 2)
                /\ ret[r].S.rows = 2 /\ ret[r].S.cols = 2

\* C3: on every rank, after construction and after every completed call, the
\* local U has split_counts[rank] rows and q columns (q <= d).
C3_LocalRows ==
    q <= d =>
      \A r \in Ranks :
        pc[r] = "idle" => U[r].rows = split_counts[r][r] /\ U[r].cols = q

\* C4: once an update_model call has returned on every rank, every rank's S
\* is the q x q diagonal of the first q entries of the S_tilde that rank 0
\* computed in that call.
C4_ReplicatedS ==
    \A k \in 1 .. MaxCalls :
      (/\ Len(calls) >= k /\ calls[k].op = "update_model"
       /\ \A r \in Ranks : ip[r] = k /\ pc[r] = "idle")
      => \A r \in Ranks : S[r] = Mat(q, q, SvdRoot(k))

C4_Witness ==
    /\ size >= 2
    /\ \A r \in Ranks : ip[r] = 1 /\ Returned(r, "update_model")
    /\ S[1] = Mat(q, q, SvdRoot(1))
    /\ n[1] = m

\* C5: mu and total_variance are never assigned on a rank other than 0
\* (stated for q <= d, the models the design allows).
C5_RootOnly ==
    q <= d =>
      \A r \in Ranks : r # 0 => mu[r] = NoAttr /\ total_variance[r] = NoAttr

\* C6: update_model with a block of the wrong number of rows or of width 0
\* fails before the rank issues any collective, with U, S, n, mu and
\* total_variance as they were before the call.
C6_FailFast ==
    \A r \in Ranks :
      (InCall(r, "update_model") /\ (LastCall(r).rows # d \/ LastCall(r).cols = 0))
      => /\ pc[r] = "failed"
         /\ trace[r] = <<>>
         /\ Snapshot(r) = loc[r].pre

\* C7: update_model with a d-row block of width m', 1 <= m' <= m, completes
\* on every rank: rank 0's gather buffer holds size blocks of w x w with
\* w = q + m' + 1, and every broadcast delivers as many elements as the
\* receiving rank's buffer holds.  Stated for the first call on a model whose
\* ranks all hold at least w rows, so that nothing but the width is in play.
C7_AnyWidth ==
    \A r \in Ranks :
      (/\ InCall(r, "update_model")
       /\ ip[r] = 1
       /\ LastCall(r).rows = d
       /\ 1 <= LastCall(r).cols /\ LastCall(r).cols <= m
       /\ \A o \in Ranks : SplitCounts(d, size)[o] >= q + LastCall(r).cols + 1)
      => /\ pc[r] # "failed"
         /\ (r = 0 /\ pc[r] = "gather") =>
                loc[r].r_tot = Shape(size * (q + loc[r].mp + 1), q + loc[r].mp + 1)
         /\ (r # 0 /\ taken[r] < Len(wire) /\ pc[r] = "bcast_q") =>
                Incoming(r).elems[r] = loc[r].q_tot.rows * loc[r].q_tot.cols
         /\ (r # 0 /\ taken[r] < Len(wire) /\ pc[r] = "bcast_r") =>
                Incoming(r).elems[r] = loc[r].r_tilde.rows * loc[r].r_tilde.cols
         /\ (r # 0 /\ taken[r] < Len(wire) /\ pc[r] = "bcast_u") =>
                Incoming(r).elems[r] = loc[r].U_tilde.rows * loc[r].U_tilde.cols
         /\ (r # 0 /\ taken[r] < Len(wire) /\ pc[r] = "bcast_s") =>
                Incoming(r).elems[r] = loc[r].S_tilde.len

\* C8: in parallel_qr every rank's R_local is w x w, w the number of columns
\* of its input, however many rows the rank holds, and parallel_qr does not
\* fail because a rank holds fewer than w rows (q <= d, block of nominal
\* width).
C8_SquareRLocal ==
    \A r \in Ranks :
      (q <= d /\ InCall(r, "update_model") /\ LastCall(r).cols = m)
      => /\ pc[r] \in {"gather", "bcast_q", "bcast_r"} =>
                loc[r].r_loc = Shape(loc[r].x, loc[r].x)
         /\ err[r] \notin {"parallel_qr:107", "parallel_qr:131"}

\* C9: in every update_model call on rank 0 the variance combination and the
\* augmentation column use the mean and the count as they were before the
\* call; self.n is not incremented by then.
C9_Step ==
    /\ pc[0] = "idle" /\ pc'[0] = "barrier"
    => LET blk == ip'[0]
           mp == calls'[blk].cols
           mu_m == MeanOf(blk)
           s_m == IF mp > 1 THEN VarOf(blk) ELSE Zeros
       IN /\ loc'[0].v_augment = Augment(n[0], mp, mu_m, mu[0].val)
          /\ total_variance'[0].val =
                 IF n[0] = 0 THEN s_m
                 ELSE CombVar(total_variance[0].val, s_m, mu[0].val, mu_m, n[0], mp)
          /\ mu'[0].val =
                 IF n[0] = 0 THEN mu_m ELSE CombMean(mu[0].val, mu_m, n[0], mp)
          /\ n'[0] = n[0]

C9_PriorMean == [][C9_Step]_vars

C9_Witness ==
    /\ pc[0] = "barrier"
    /\ loc[0].pre.n > 0
    /\ loc[0].pre.mu.val # Zeros
    /\ mu[0] # loc[0].pre.mu
    /\ loc[0].v_augment =
           Augment(loc[0].pre.n, loc[0].mp, MeanOf(loc[0].blk), loc[0].pre.mu.val)

\* C10: within one update_model call every rank issues Barrier, Scatterv,
\* Gather and the four broadcasts in this order; no rank is past the barrier
\* before every rank has entered it; and once every rank has called
\* update_model the call returns on every rank.
UpdateCollectives ==
    <<"Barrier", "Scatterv", "Gather", "Bcast q_tot", "Bcast r_tilde",
      "Bcast U_tilde", "Bcast S_tilde">>

C10_SameOrder ==
    \A r \in Ranks :
      InCall(r, "update_model") =>
        /\ Len(trace[r]) <= Len(UpdateCollectives)
        /\ trace[r] = SubSeq(UpdateCollectives, 1, Len(trace[r]))
        /\ pc[r] = "idle" => trace[r] = UpdateCollectives

C10_BarrierSafe ==
    \A r \in Ranks :
      (InCall(r, "update_model") /\ pc[r] \notin {"barrier", "failed"})
      => \A o \in Ranks : bar[o] >= bar[r]

\* Once every rank has called update_model with the same d x m block, some
\* rank can take a step until the call has returned on all of them.
C10_Returns ==
    \A r \in Ranks :
      (/\ q <= d
       /\ InCall(r, "update_model")
       /\ LastCall(r).rows = d /\ LastCall(r).cols = m
       /\ pc[r] # "idle"
       /\ \A o \in Ranks : ip[o] >= ip[r])
      => ENABLED Next

C10_Collective == C10_SameOrder /\ C10_BarrierSafe /\ C10_Returns

====
